---------------------------- MODULE Spec2Model ----------------------------
(***************************************************************************)
(* A model of doi_finder.py (src/src/doi_finder.py): the citation          *)
(* normaliser, the CrossRef lookup, the duplicate remover, the            *)
(* spreadsheet/CSV writer and the two command-line modes of main().        *)
(*                                                                         *)
(* Text is modelled as a sequence of tokens.  A citation is a sequence of  *)
(* one-character tokens; a DOI, a note or a column name is a sequence of   *)
(* longer tokens, so that concatenation (the doi_url f-string), suffixing  *)
(* (pandas' "_new") and str.replace are computed, not assumed.             *)
(***************************************************************************)
EXTENDS Integers, Sequences, FiniteSets, TLC

(***************************************************************************)
(* Bounds of the model.                                                    *)
(***************************************************************************)
MaxFileLen == 2        \* lines of a citation file in the run model
MaxEdits == 2          \* user edits of the spreadsheet in one behaviour
MaxDedupLen == 3       \* records given to remove_duplicate_dois on its own
MaxLineLen == 2        \* characters of a raw line given to the normaliser
MaxNormLines == 2      \* lines of a file given to the normaliser
MaxSaveRows == 2       \* rows of a spreadsheet / records given to save_results

(***************************************************************************)
(* Program constants, in ticks of half a second.                           *)
(***************************************************************************)
request_delay == 2     \* self.request_delay = 1.0 s
PauseTicks == 1        \* time.sleep(0.5)

(***************************************************************************)
(* Generic helpers.                                                        *)
(***************************************************************************)
Range(s) == {s[i] : i \in 1..Len(s)}

SeqsUpTo(S, n) == UNION {[1..k -> S] : k \in 0..n}

(***************************************************************************)
(* Characters.  "E'" stands for a non-ASCII letter such as U+00C9, "BEL"   *)
(* for a control character that is neither whitespace nor printable.       *)
(***************************************************************************)
IsAsciiAlpha(c) == c \in {"A", "b"}          \* the regex class [a-zA-Z]
IsAlpha(c) == c \in {"A", "b", "E'"}         \* str.isalpha()
IsSpace(c) == c = " "                        \* what str.strip() removes
IsPrintable(c) == c # "BEL"                  \* str.isprintable()

RECURSIVE LStrip(_)
LStrip(s) ==
    IF s = <<>> THEN s
    ELSE IF IsSpace(Head(s)) THEN LStrip(Tail(s)) ELSE s

RECURSIVE RStrip(_)
RStrip(s) ==
    IF s = <<>> THEN s
    ELSE IF IsSpace(s[Len(s)]) THEN RStrip(SubSeq(s, 1, Len(s) - 1)) ELSE s

\* str.strip()
Strip(s) == RStrip(LStrip(s))

\* re.search(r'[a-zA-Z]', s).start(), 1-based; 0 when there is no match
ReSearchAlpha(s) ==
    IF \E i \in 1..Len(s) : IsAsciiAlpha(s[i])
    THEN CHOOSE i \in 1..Len(s) :
            /\ IsAsciiAlpha(s[i])
            /\ \A j \in 1..(i - 1) : ~IsAsciiAlpha(s[j])
    ELSE 0

\* line 75: citations = [line.strip() for line in f if line.strip()]
ReadCitationLines(file) ==
    LET stripped == [i \in 1..Len(file) |-> Strip(file[i])]
    IN  SelectSeq(stripped, LAMBDA l : l # <<>>)

\* lines 79-81: one pass of the preprocessing loop body
StripPrecursor(c) ==
    LET m == ReSearchAlpha(c)
    IN  IF m # 0 THEN Strip(SubSeq(c, m, Len(c))) ELSE c

\* lines 74-81: the citations list process_citations_file looks up
NormalizeFile(file) ==
    LET cs == ReadCitationLines(file)
    IN  [i \in 1..Len(cs) |-> StripPrecursor(cs[i])]

(***************************************************************************)
(* Cell values and column names.                                           *)
(***************************************************************************)
NaN == <<"<NaN>">>                    \* pandas' missing value
NotFound == <<"Not Found">>           \* the sentinel of line 70
DoiA == <<"10.1/a">>
DoiB == <<"10.1/b">>

Citation == <<"citation">>
Doi == <<"doi">>
DoiUrl == <<"doi_url">>
Notes == <<"notes">>                  \* a column a user added
NotesNew == <<"notes", "_new">>       \* a user column named "notes_new"

(***************************************************************************)
(* The lookup.  The service's answer to a query is a hit with a DOI, an    *)
(* empty item list, a network error, or (not an answer) an operator        *)
(* interrupt raised while the request is in flight.                        *)
(***************************************************************************)
Hit(d) == [kind |-> "hit", doi |-> d]
NoHits == [kind |-> "nohits", doi |-> <<>>]
NetErr == [kind |-> "neterr", doi |-> <<>>]
Interrupted == [kind |-> "interrupt", doi |-> <<>>]

\* lines 62-70: everything but a hit raises inside the try and is caught by
\* the bare except, KeyboardInterrupt included
find_doi(citation, answer) ==
    IF answer.kind = "hit"
    THEN <<citation, answer.doi, "CrossRef">>
    ELSE <<citation, NotFound, "CrossRef">>

\* lines 90-94: a dict with keys citation, doi, doi_url; a string is truthy
\* when it is not empty
MakeResult(citation_text, doi) ==
    [keys |-> <<Citation, Doi, DoiUrl>>,
     val |-> [c \in {Citation, Doi, DoiUrl} |->
                IF c = Citation THEN citation_text
                ELSE IF c = Doi THEN (IF doi # <<>> THEN doi ELSE <<>>)
                ELSE (IF doi # <<>> THEN <<"https://doi.org/">> \o doi ELSE <<>>)]]

(***************************************************************************)
(* remove_duplicate_dois, lines 102-112.                                   *)
(***************************************************************************)
RECURSIVE DedupLoop(_, _, _)
DedupLoop(results, seen_dois, unique_results) ==
    IF results = <<>> THEN unique_results
    ELSE LET result == Head(results)
         IN  IF result.val[Doi] \notin seen_dois
             THEN DedupLoop(Tail(results), seen_dois \cup {result.val[Doi]},
                            Append(unique_results, result))
             ELSE DedupLoop(Tail(results), seen_dois, unique_results)

\* remove_duplicate_dois without the membership test of line 108
remove_duplicate_dois_NoCheck(results) == results

\* remove_duplicate_dois letting every "Not Found" row through
RECURSIVE DedupLoopExempt(_, _, _)
DedupLoopExempt(results, seen_dois, unique_results) ==
    IF results = <<>> THEN unique_results
    ELSE LET result == Head(results)
         IN  IF result.val[Doi] = NotFound \/ result.val[Doi] \notin seen_dois
             THEN DedupLoopExempt(Tail(results), seen_dois \cup {result.val[Doi]},
                                  Append(unique_results, result))
             ELSE DedupLoopExempt(Tail(results), seen_dois, unique_results)

remove_duplicate_dois_ExemptNotFound(results) == DedupLoopExempt(results, {}, <<>>)

\* remove_duplicate_dois keyed on the citation instead of the doi
RECURSIVE DedupLoopByCitation(_, _, _)
DedupLoopByCitation(results, seen, unique_results) ==
    IF results = <<>> THEN unique_results
    ELSE LET result == Head(results)
         IN  IF result.val[Citation] \notin seen
             THEN DedupLoopByCitation(Tail(results), seen \cup {result.val[Citation]},
                                      Append(unique_results, result))
             ELSE DedupLoopByCitation(Tail(results), seen, unique_results)

remove_duplicate_dois_ByCitation(results) == DedupLoopByCitation(results, {}, <<>>)

\* remove_duplicate_dois keeping the last record of each doi, not the first
RECURSIVE DedupLoopKeepLast(_)
DedupLoopKeepLast(results) ==
    IF results = <<>> THEN <<>>
    ELSE LET result == Head(results)
         IN  IF \E n \in 1..Len(Tail(results)) :
                    Tail(results)[n].val[Doi] = result.val[Doi]
             THEN DedupLoopKeepLast(Tail(results))
             ELSE <<result>> \o DedupLoopKeepLast(Tail(results))

remove_duplicate_dois_KeepLast(results) == DedupLoopKeepLast(results)

remove_duplicate_dois(results) == DedupLoop(results, {}, <<>>)

(***************************************************************************)
(* Data frames and files.  A frame has an ordered list of column names and *)
(* rows that are functions over them; a file is a frame plus whether it    *)
(* exists.                                                                 *)
(***************************************************************************)
ColSet(t) == Range(t.cols)

NoFile == [exists |-> FALSE, cols |-> <<>>, rows |-> <<>>]

Frame(cols, rows) == [exists |-> TRUE, cols |-> cols, rows |-> rows]

RECURSIVE UnionKeys(_, _)
UnionKeys(dicts, acc) ==
    IF dicts = <<>> THEN acc
    ELSE LET fresh == SelectSeq(Head(dicts).keys, LAMBDA k : k \notin Range(acc))
         IN  UnionKeys(Tail(dicts), acc \o fresh)

\* pd.DataFrame(list of dicts): the columns are the keys in order of first
\* appearance, a key a dict lacks is NaN
DataFrame(dicts) ==
    LET cols == UnionKeys(dicts, <<>>)
    IN  Frame(cols,
              [i \in 1..Len(dicts) |->
                 [c \in Range(cols) |->
                    IF c \in Range(dicts[i].keys) THEN dicts[i].val[c] ELSE NaN]])

\* df.to_dict('records')
ToDictRecords(t) ==
    [i \in 1..Len(t.rows) |-> [keys |-> t.cols, val |-> t.rows[i]]]

\* read_csv / read_excel of what to_csv / to_excel wrote: an empty cell is
\* read back as NaN
ReadBack(t) ==
    Frame(t.cols,
          [i \in 1..Len(t.rows) |->
             [c \in ColSet(t) |-> IF t.rows[i][c] = <<>> THEN NaN ELSE t.rows[i][c]]])

\* pd.read_csv raises EmptyDataError on a file to_csv wrote from a frame
\* without columns
ReadCsvRaises(t) == t.cols = <<>>

(***************************************************************************)
(* pd.merge(existing_df, new_df, on='doi', how='outer',                    *)
(*          suffixes=('', '_new')), line 130.                              *)
(***************************************************************************)
\* the lexicographic order of the key values
KeyRank(k) ==
    CASE k = DoiA -> 1
      [] k = DoiB -> 2
      [] k = NotFound -> 3
      [] OTHER -> 4

RECURSIVE SortKeys(_)
SortKeys(S) ==
    IF S = {} THEN <<>>
    ELSE LET k == CHOOSE x \in S : \A y \in S : KeyRank(x) <= KeyRank(y)
         IN  <<k>> \o SortKeys(S \ {k})

\* a KeyError when a side has no 'doi' column
MergeRaises(left, right) == Doi \notin ColSet(left) \/ Doi \notin ColSet(right)

\* the name a right-hand column gets: the suffix goes to the names both
\* sides have, the key excepted
RightName(left, right, c) ==
    IF c \in ColSet(left) /\ c # Doi THEN Append(c, "_new") ELSE c

RECURSIVE Flatten(_)
Flatten(ss) == IF ss = <<>> THEN <<>> ELSE Head(ss) \o Flatten(Tail(ss))

Merge(left, right) ==
    LET rcols == SelectSeq(right.cols, LAMBDA c : c # Doi)
        cols == left.cols \o [i \in 1..Len(rcols) |-> RightName(left, right, rcols[i])]
        \* the right-hand column a merged column comes from, if any
        From(c) == {r \in Range(rcols) : RightName(left, right, r) = c}
        Join(l, r, k) ==
            [c \in Range(cols) |->
               IF c = Doi THEN k
               ELSE IF From(c) # {}
                    THEN (IF r = <<>> THEN NaN ELSE r[1][CHOOSE x \in From(c) : TRUE])
                    ELSE (IF l = <<>> THEN NaN ELSE l[1][c])]
        keys == SortKeys({left.rows[i][Doi] : i \in 1..Len(left.rows)}
                         \cup {right.rows[i][Doi] : i \in 1..Len(right.rows)})
        RowsOf(k) ==
            LET L == SelectSeq(left.rows, LAMBDA x : x[Doi] = k)
                R == SelectSeq(right.rows, LAMBDA x : x[Doi] = k)
            IN  IF L = <<>> THEN [j \in 1..Len(R) |-> Join(<<>>, <<R[j]>>, k)]
                ELSE IF R = <<>> THEN [i \in 1..Len(L) |-> Join(<<L[i]>>, <<>>, k)]
                ELSE Flatten([i \in 1..Len(L) |->
                                [j \in 1..Len(R) |-> Join(<<L[i]>>, <<R[j]>>, k)]])
    IN  Frame(cols, Flatten([n \in 1..Len(keys) |-> RowsOf(keys[n])]))

(***************************************************************************)
(* Lines 133-136: every column whose name ends in "_new" is copied over    *)
(* the column named by col.replace('_new', '') and dropped.                *)
(***************************************************************************)
EndsWithNew(col) == col # <<>> /\ col[Len(col)] = "_new"

ReplaceNew(col) == SelectSeq(col, LAMBDA tok : tok # "_new")

\* merged_df[target] = merged_df[col]; merged_df.drop(columns=[col])
CopyAndDrop(t, col) ==
    LET target == ReplaceNew(col)
        kept == SelectSeq(t.cols, LAMBDA c : c # col)
        cols == IF target \in Range(kept) THEN kept ELSE Append(kept, target)
    IN  Frame(cols,
              [i \in 1..Len(t.rows) |->
                 [c \in Range(cols) |->
                    IF c = target THEN t.rows[i][col] ELSE t.rows[i][c]]])

RECURSIVE DropNewColumns(_, _)
DropNewColumns(t, columns) ==
    IF columns = <<>> THEN t
    ELSE IF EndsWithNew(Head(columns)) /\ Head(columns) \in ColSet(t)
         THEN DropNewColumns(CopyAndDrop(t, Head(columns)), Tail(columns))
         ELSE DropNewColumns(t, Tail(columns))

(***************************************************************************)
(* save_results, lines 114-155.                                            *)
(***************************************************************************)
\* line 118: iterating a NaN citation (a float) raises TypeError
SanitizeRaises(results) ==
    \E i \in 1..Len(results) : results[i].val[Citation] = NaN

Sanitize(results) ==
    [i \in 1..Len(results) |->
       [results[i] EXCEPT !.val[Citation] =
            SelectSeq(results[i].val[Citation], IsPrintable)]]

\* lines 117-154: the frame final_df written to the spreadsheet and to the CSV file
save_results(results, excel) ==
    LET new_df == DataFrame(Sanitize(results))
        existing_df == ReadBack(excel)
    IN  IF excel.exists /\ ~MergeRaises(existing_df, new_df)
        THEN LET merged_df == Merge(existing_df, new_df)
             IN  DropNewColumns(merged_df, merged_df.cols)
        ELSE new_df

(***************************************************************************)
(* The program's runs.  One behaviour is a series of runs of the script on *)
(* the same output path (dois.csv, with dois.xlsx beside it), starting     *)
(* with neither file present; between runs a user may edit a column of     *)
(* their own in the spreadsheet.                                           *)
(***************************************************************************)
VARIABLES
    csv,          \* the CSV file at the output path
    xlsx,         \* the spreadsheet beside it
    service,      \* the lookup service: normalised citation -> answer
    pc,           \* "idle" between runs; "query", "pause", "merge" in ingest
    file,         \* the citation file of the run
    citations,    \* process_citations_file's list, normalised
    i,            \* the loop index of lines 86-98
    results,      \* the results list of line 85
    answers,      \* what each query of the run ended with
    sinceQuery,   \* ticks since the process last issued a query (capped)
    interruptAt,  \* where an operator interrupt reached the run, or "none"
    queryAfter,   \* a query was issued after the interrupt
    last,         \* the latest finished run: kind, file, exit status, report
    again,        \* in a run: what the finished, uninterrupted ingest before
                  \* it, of the same file, reported as added (-1: none)
    userLast,     \* the user's latest edit: the row's doi and the note typed
    edits,        \* user edits made
    dd_in, dd_out, dd_done,           \* remove_duplicate_dois on its own
    nm_in, nm_out, nm_done,           \* the normaliser on its own
    sv_excel, sv_results, sv_out, sv_done   \* save_results on its own

mainVars == <<csv, xlsx, service, pc, file, citations, i, results, answers,
              sinceQuery, interruptAt, queryAfter, last, again,
              userLast, edits>>
ddVars == <<dd_in, dd_out, dd_done>>
nmVars == <<nm_in, nm_out, nm_done>>
svVars == <<sv_excel, sv_results, sv_out, sv_done>>
vars == <<mainVars, ddVars, nmVars, svVars>>

\* the lines citation files are made of
RawLines == { <<"1", ".", " ", "A">>, <<"b", "BEL">>, <<" ">> }

Files == SeqsUpTo(RawLines, MaxFileLen)

Citations == UNION {Range(NormalizeFile(<<l>>)) : l \in RawLines}

Answers == {Hit(DoiA), Hit(DoiB), NoHits, NetErr}

\* the services of the model: deterministic, one answer per citation
Services ==
    {f \in [Citations -> Answers] :
        /\ f[<<"A">>] \in {Hit(DoiA), NoHits}
        /\ f[<<"b", "BEL">>] \in {Hit(DoiA), Hit(DoiB), NetErr}}

\* what the user types at their n-th edit
NoteTyped(n) == IF n % 2 = 1 THEN <<"x">> ELSE <<"y">>

KeyValues == {DoiA, DoiB, NotFound}

NoReport == [total |-> 0, added |-> 0, dups |-> 0]

\* prevAdded: the count of added citations the run before reported, when
\* that run was a finished, uninterrupted ingest of the same file; else -1
NoRun == [kind |-> "none", file |-> <<>>, exit |-> 0, report |-> NoReport,
          interrupt |-> "none", queryAfter |-> FALSE, wrote |-> FALSE,
          prevAdded |-> -1]

NoEdit == [doi |-> <<>>, note |-> <<>>]

Min(a, b) == IF a < b THEN a ELSE b

MainInit ==
    /\ csv = NoFile
    /\ xlsx = NoFile
    /\ service \in Services
    /\ pc = "idle"
    /\ file = <<>>
    /\ citations = <<>>
    /\ i = 0
    /\ results = <<>>
    /\ answers = <<>>
    /\ sinceQuery = request_delay
    /\ interruptAt = "none"
    /\ queryAfter = FALSE
    /\ last = NoRun
    /\ again = -1
    /\ userLast = NoEdit
    /\ edits = 0

IdleInit ==
    /\ csv = NoFile
    /\ xlsx = NoFile
    /\ service = [c \in Citations |-> NoHits]
    /\ pc = "idle"
    /\ file = <<>>
    /\ citations = <<>>
    /\ i = 0
    /\ results = <<>>
    /\ answers = <<>>
    /\ sinceQuery = request_delay
    /\ interruptAt = "none"
    /\ queryAfter = FALSE
    /\ last = NoRun
    /\ again = -1
    /\ userLast = NoEdit
    /\ edits = 0

DdIdle == dd_in = <<>> /\ dd_out = <<>> /\ dd_done = FALSE
NmIdle == nm_in = <<>> /\ nm_out = <<>> /\ nm_done = FALSE
SvIdle == sv_excel = NoFile /\ sv_results = <<>> /\ sv_out = NoFile /\ sv_done = FALSE

\* the end of a run: the process exits and its memory is gone
EndRun(kind, f, status, report, wrote, intr) ==
    /\ pc' = "idle"
    /\ file' = <<>>
    /\ citations' = <<>>
    /\ i' = 0
    /\ results' = <<>>
    /\ answers' = <<>>
    /\ sinceQuery' = request_delay
    /\ interruptAt' = "none"
    /\ queryAfter' = FALSE
    /\ last' = [kind |-> kind, file |-> f, exit |-> status, report |-> report,
                interrupt |-> intr, queryAfter |-> queryAfter, wrote |-> wrote,
                prevAdded |-> again]
    /\ again' = -1

\* lines 211-219 and 72-83: -i names a file that exists; the file is read
\* and normalised and the lookup loop begins
StartIngest(f) ==
    /\ pc = "idle"
    /\ file' = f
    /\ citations' = NormalizeFile(f)
    /\ i' = 1
    /\ results' = <<>>
    /\ answers' = <<>>
    /\ pc' = IF NormalizeFile(f) = <<>> THEN "merge" ELSE "query"
    /\ again' = IF /\ last.kind = "ingest" /\ last.exit = 0
                   /\ last.interrupt = "none" /\ last.file = f
                THEN last.report.added ELSE -1
    /\ last' = NoRun
    /\ UNCHANGED <<csv, xlsx, service, sinceQuery, interruptAt,
                   queryAfter, userLast, edits>>

\* lines 213-216: -i names a file that does not exist
IngestMissingFile ==
    /\ pc = "idle"
    /\ EndRun("ingest", <<>>, 1, NoReport, FALSE, "none")
    /\ UNCHANGED <<csv, xlsx, service, userLast, edits>>

\* lines 252-254: neither -c nor -i
NoArguments ==
    /\ pc = "idle"
    /\ EndRun("none", <<>>, 1, NoReport, FALSE, "none")
    /\ UNCHANGED <<csv, xlsx, service, userLast, edits>>

\* lines 86-98 around one call of find_doi (58-70): the query is issued at
\* once, nothing waits for request_delay; it takes d ticks and ends with
\* answer
QueryStep(answer, d) ==
    /\ pc = "query"
    /\ LET r == find_doi(citations[i], answer)
       IN  results' = Append(results, MakeResult(r[1], r[2]))
    /\ answers' = Append(answers, answer.kind)
    /\ sinceQuery' = Min(d, request_delay)
    /\ queryAfter' = (queryAfter \/ interruptAt # "none")
    /\ pc' = IF i < Len(citations) THEN "pause" ELSE "merge"
    /\ UNCHANGED <<csv, xlsx, service, file, citations, i, last, again,
                   userLast, edits>>

\* the service answers
Query ==
    /\ pc = "query"
    /\ \E d \in 0..1 : QueryStep(service[citations[i]], d)
    /\ UNCHANGED interruptAt

\* the operator interrupts while cr.works is running: KeyboardInterrupt is
\* raised inside the try of line 62
InterruptQuery ==
    /\ pc = "query"
    /\ interruptAt = "none"
    /\ QueryStep(Interrupted, 0)
    /\ interruptAt' = "query"

\* line 98: time.sleep(0.5), then the next iteration
Pause ==
    /\ pc = "pause"
    /\ sinceQuery' = Min(sinceQuery + PauseTicks, request_delay)
    /\ i' = i + 1
    /\ pc' = "query"
    /\ UNCHANGED <<csv, xlsx, service, file, citations, results, answers,
                   interruptAt, queryAfter, last, again, userLast,
                   edits>>

\* the operator interrupts during the sleep of line 98: KeyboardInterrupt
\* reaches main's handler, lines 256-258
InterruptPause ==
    /\ pc = "pause"
    /\ EndRun("ingest", file, 1, NoReport, FALSE, "pause")
    /\ UNCHANGED <<csv, xlsx, service, userLast, edits>>

\* the operator interrupts after the loop and before save_results writes
InterruptMerge ==
    /\ pc = "merge"
    /\ EndRun("ingest", file, 1, NoReport, FALSE, "merge")
    /\ UNCHANGED <<csv, xlsx, service, userLast, edits>>

\* lines 221-250 with save_results (114-155)
MergeAndSave ==
    /\ pc = "merge"
    /\ IF csv.exists /\ ReadCsvRaises(csv)
       THEN \* line 226 raises; lines 260-262
            /\ EndRun("ingest", file, 1, NoReport, FALSE, interruptAt)
            /\ UNCHANGED <<csv, xlsx>>
       ELSE LET new_results == results
                existing_results ==
                    IF csv.exists THEN ToDictRecords(ReadBack(csv)) ELSE <<>>
                combined_results == existing_results \o new_results
                unique_results == remove_duplicate_dois(combined_results)
                total_existing == Len(existing_results)
                total_new == Len(new_results)
                total_combined == Len(unique_results)
                duplicates_removed == (total_existing + total_new) - total_combined
                successfully_added == total_combined - total_existing
            IN  IF SanitizeRaises(unique_results)
                THEN \* line 118 raises; lines 260-262
                     /\ EndRun("ingest", file, 1, NoReport, FALSE, interruptAt)
                     /\ UNCHANGED <<csv, xlsx>>
                ELSE /\ xlsx' = save_results(unique_results, xlsx)
                     /\ csv' = save_results(unique_results, xlsx)
                     /\ EndRun("ingest", file, 0,
                               [total |-> total_combined,
                                added |-> successfully_added,
                                dups |-> duplicates_removed],
                               TRUE, interruptAt)
    /\ UNCHANGED <<service, userLast, edits>>

\* lines 185-209: -c on the output path
Clean ==
    /\ pc = "idle"
    /\ IF ~csv.exists \/ ReadCsvRaises(csv)
       THEN \* lines 188-190, or line 193 raises
            /\ EndRun("clean", <<>>, 1, NoReport, FALSE, "none")
            /\ UNCHANGED csv
       ELSE LET existing_results == ToDictRecords(ReadBack(csv))
                unique_results == remove_duplicate_dois(existing_results)
            IN  /\ csv' = DataFrame(unique_results)
                /\ EndRun("clean", <<>>, 0,
                          [total |-> Len(unique_results),
                           added |-> 0,
                           dups |-> Len(existing_results) - Len(unique_results)],
                          TRUE, "none")
    /\ UNCHANGED <<xlsx, service, userLast, edits>>

\* between runs the user opens the spreadsheet and types a note for a row
\* in a column of their own
UserEdit ==
    /\ pc = "idle"
    /\ edits < MaxEdits
    /\ xlsx.exists
    /\ Doi \in ColSet(xlsx)
    /\ \E r \in 1..Len(xlsx.rows) :
         LET v == NoteTyped(edits + 1)
             cols == IF Notes \in ColSet(xlsx) THEN xlsx.cols
                     ELSE Append(xlsx.cols, Notes)
         IN  /\ xlsx' = Frame(cols,
                    [n \in 1..Len(xlsx.rows) |->
                       [c \in Range(cols) |->
                          IF c = Notes
                          THEN (IF n = r THEN v
                                ELSE IF Notes \in ColSet(xlsx) THEN xlsx.rows[n][c]
                                ELSE <<>>)
                          ELSE xlsx.rows[n][c]]])
             /\ userLast' = [doi |-> xlsx.rows[r][Doi], note |-> v]
    /\ edits' = edits + 1
    /\ UNCHANGED <<csv, service, pc, file, citations, i, results, answers,
                   sinceQuery, interruptAt, queryAfter, last, again>>

MainNext ==
    \/ \E f \in Files : StartIngest(f)
    \/ IngestMissingFile
    \/ NoArguments
    \/ Query
    \/ InterruptQuery
    \/ Pause
    \/ InterruptPause
    \/ InterruptMerge
    \/ MergeAndSave
    \/ Clean

Init == MainInit /\ DdIdle /\ NmIdle /\ SvIdle

\* the runs of the program on one output path
Next == MainNext /\ UNCHANGED <<ddVars, nmVars, svVars>>

Spec == Init /\ [][Next]_vars

\* the same runs, with a user editing the spreadsheet between them
NextEdit == (MainNext \/ UserEdit) /\ UNCHANGED <<ddVars, nmVars, svVars>>

SpecEdit == Init /\ [][NextEdit]_vars

(***************************************************************************)
(* Properties of the runs.                                                 *)
(***************************************************************************)
Tables == {csv, xlsx}

DoisOf(t) == [n \in 1..Len(t.rows) |-> t.rows[n][Doi]]

FinishedIngest == pc = "idle" /\ last.kind = "ingest" /\ last.exit = 0

\* the citations of the latest run's file the service has no DOI for
Unresolved(f) == {c \in Range(NormalizeFile(f)) : service[c].kind # "hit"}

\* C2: a citation whose lookup yields no hits or a network error gets a
\* Record with doi "Not Found" and an empty doi_url.
C2_NotFoundRecord ==
    \A n \in 1..Len(results) :
        answers[n] \in {"nohits", "neterr"} =>
            /\ results[n].val[Doi] = NotFound
            /\ results[n].val[DoiUrl] = <<>>

\* C3: no query is issued before request_delay has passed since the query
\* before it: whenever the loop is about to call find_doi, the minimum gap
\* has been enforced.
C3_GapBeforeQuery == pc = "query" => sinceQuery >= request_delay

\* C4: after any sequence of ingest and clean runs, no two rows of the CSV
\* file or of the spreadsheet carry the same doi, "Not Found" excepted.
C4_UniqueDois ==
    \A t \in Tables :
        \A a, b \in 1..Len(t.rows) :
            (a # b /\ DoisOf(t)[a] = DoisOf(t)[b]) => DoisOf(t)[a] = NotFound

\* an ingest run that met duplicates has finished and the table has two rows
C4_Witness ==
    /\ FinishedIngest
    /\ last.report.dups > 0
    /\ Len(csv.rows) >= 2
    /\ Len(xlsx.rows) >= 2

\* C5 as stated: every citation of an ingested file that resolved to
\* "Not Found" has a row of its own in the persisted table.
C5_NotFoundExempt ==
    FinishedIngest =>
        \A c \in Unresolved(last.file) :
            \E n \in 1..Len(csv.rows) :
                /\ csv.rows[n][Doi] = NotFound
                /\ csv.rows[n][Citation] = SelectSeq(c, IsPrintable)

\* C5 amended: "Not Found" is deduplicated like any other doi value: the
\* persisted table never holds more than one "Not Found" row.
C5_OneNotFound ==
    \A t \in Tables :
        Cardinality({n \in 1..Len(t.rows) : DoisOf(t)[n] = NotFound}) <= 1

\* a file with two distinct unresolved citations was ingested and the table
\* holds a single "Not Found" row
C5_Witness ==
    /\ FinishedIngest
    /\ last.interrupt = "none"
    /\ Cardinality(Unresolved(last.file)) = 2
    /\ Cardinality({n \in 1..Len(csv.rows) : DoisOf(csv)[n] = NotFound}) = 1

\* C8 as stated: the second of two ingest runs of the same file reports as
\* many duplicates as the first reported added citations.
C8_DupsEqualAdded ==
    (FinishedIngest /\ last.interrupt = "none" /\ last.prevAdded # -1) =>
        last.report.dups = last.prevAdded

\* C8 amended: the second of two finished, uninterrupted ingest runs of the
\* same file adds nothing and reports every citation of the file as a
\* duplicate, whatever the first run added.
C8_DupsEqualCitations ==
    (FinishedIngest /\ last.interrupt = "none" /\ last.prevAdded # -1) =>
        /\ last.report.dups = Len(NormalizeFile(last.file))
        /\ last.report.added = 0

\* the second run of a two-citation file of which the first run added one
C8_Witness ==
    /\ FinishedIngest
    /\ last.interrupt = "none"
    /\ last.prevAdded = 1
    /\ last.report.dups = 2

\* C9: an interrupt that reaches an ingest run before the table is written
\* ends the run with status 1, with no further query and no write.
C9_InterruptStops ==
    (pc = "idle" /\ last.interrupt # "none") =>
        /\ last.exit = 1
        /\ ~last.queryAfter
        /\ ~last.wrote

\* C6: the note the user last typed for a row is the note that row has in
\* the spreadsheet whenever no run is in progress.
C6_NotesKept ==
    (pc = "idle" /\ userLast # NoEdit) =>
        \A n \in 1..Len(xlsx.rows) :
            xlsx.rows[n][Doi] = userLast.doi =>
                /\ Notes \in ColSet(xlsx)
                /\ xlsx.rows[n][Notes] = userLast.note

(***************************************************************************)
(* remove_duplicate_dois on its own: any list of records.                  *)
(***************************************************************************)
DdRecords ==
    {MakeResult(c, d) : c \in {<<"A">>, <<"b">>}, d \in {DoiA, DoiB, NotFound}}

DdInit ==
    /\ dd_in \in SeqsUpTo(DdRecords, MaxDedupLen)
    /\ dd_out = <<>>
    /\ dd_done = FALSE

DdApply ==
    /\ ~dd_done
    /\ dd_out' = remove_duplicate_dois(dd_in)
    /\ dd_done' = TRUE
    /\ UNCHANGED <<dd_in, mainVars, nmVars, svVars>>

InitDedup == IdleInit /\ DdInit /\ NmIdle /\ SvIdle

NextDedup == DdApply

SpecDedup == InitDedup /\ [][NextDedup]_vars

\* the positions of the input that hold the first record of their doi
FirstOf(in) ==
    {n \in 1..Len(in) : \A m \in 1..(n - 1) : in[m].val[Doi] # in[n].val[Doi]}

\* C1: the output of remove_duplicate_dois is the input restricted to the
\* first record of each doi value, in input order.
C1_StableDedup ==
    dd_done =>
        /\ Len(dd_out) = Cardinality(FirstOf(dd_in))
        /\ \A n \in FirstOf(dd_in) :
              dd_out[Cardinality({m \in FirstOf(dd_in) : m <= n})] = dd_in[n]

\* a list with a repeated doi was reduced to two or more records
C1_Witness ==
    /\ dd_done
    /\ Len(dd_out) >= 2
    /\ Len(dd_out) < Len(dd_in)

(***************************************************************************)
(* The normaliser on its own: any file of short lines.                     *)
(***************************************************************************)
NmChars == {"A", "b", "E'", "1", " "}

NmInit ==
    /\ nm_in \in SeqsUpTo(SeqsUpTo(NmChars, MaxLineLen), MaxNormLines)
    /\ nm_out = <<>>
    /\ nm_done = FALSE

NmApply ==
    /\ ~nm_done
    /\ nm_out' = NormalizeFile(nm_in)
    /\ nm_done' = TRUE
    /\ UNCHANGED <<nm_in, mainVars, ddVars, svVars>>

InitNorm == IdleInit /\ DdIdle /\ NmInit /\ SvIdle

NextNorm == NmApply

SpecNorm == InitNorm /\ [][NextNorm]_vars

IsBlank(line) == \A n \in 1..Len(line) : IsSpace(line[n])

NonBlank(f) == SelectSeq(f, LAMBDA line : ~IsBlank(line))

\* what the claim says of one line and its citation, for a given notion of
\* "alphabetic character"
NormalisedAs(line, citation, Alpha(_)) ==
    IF \E n \in 1..Len(line) : Alpha(line[n])
    THEN LET first == CHOOSE n \in 1..Len(line) :
                         Alpha(line[n]) /\ \A m \in 1..(n - 1) : ~Alpha(line[m])
         IN  /\ citation # <<>>
             /\ citation[1] = line[first]
             /\ ~IsSpace(citation[1])
             /\ ~IsSpace(citation[Len(citation)])
    ELSE citation = Strip(line)

\* C10: blank lines are dropped; a line with an alphabetic character yields
\* a citation that begins with the line's first alphabetic character and has
\* no surrounding whitespace; a line without one yields the trimmed line.
C10_Normalised ==
    nm_done =>
        /\ Len(nm_out) = Len(NonBlank(nm_in))
        /\ \A n \in 1..Len(nm_out) :
              NormalisedAs(NonBlank(nm_in)[n], nm_out[n], IsAlpha)

(***************************************************************************)
(* save_results on its own: any short list of new records against any      *)
(* small spreadsheet, with or without a column of the user's.              *)
(***************************************************************************)
SvKeys == {DoiA, DoiB}

\* the spreadsheets: the three columns of the program and at most one
\* column of the user's, named "notes" or "notes_new"
SvSheets ==
    {NoFile} \cup
    UNION {
        {Frame(<<Citation, Doi, DoiUrl>> \o extra, rows) :
            rows \in SeqsUpTo(
                {r \in [Range(<<Citation, Doi, DoiUrl>> \o extra) ->
                          {<<"o", "l", "d">>, <<"x">>, NaN} \cup SvKeys
                          \cup {<<"https://doi.org/">> \o k : k \in SvKeys}] :
                    /\ r[Citation] = <<"o", "l", "d">>
                    /\ r[Doi] \in SvKeys
                    /\ r[DoiUrl] = <<"https://doi.org/">> \o r[Doi]
                    /\ \A c \in Range(extra) : r[c] \in {<<"x">>, NaN}},
                MaxSaveRows)} :
        extra \in {<<>>, <<Notes>>, <<NotesNew>>}}

\* the new records: as process_citations_file builds them, or as read back
\* from a CSV file that has a "notes" column
SvRecords ==
    {MakeResult(<<"A">>, k) : k \in SvKeys} \cup
    {[keys |-> <<Citation, Doi, DoiUrl, Notes>>,
      val |-> [c \in {Citation, Doi, DoiUrl, Notes} |->
                 IF c = Notes THEN <<"n">> ELSE MakeResult(<<"A">>, k).val[c]]] :
        k \in SvKeys}

SvInit ==
    /\ sv_excel \in SvSheets
    /\ sv_results \in SeqsUpTo(SvRecords, MaxSaveRows)
    /\ sv_out = NoFile
    /\ sv_done = FALSE

SvApply ==
    /\ ~sv_done
    /\ sv_out' = save_results(sv_results, sv_excel)
    /\ sv_done' = TRUE
    /\ UNCHANGED <<sv_excel, sv_results, mainVars, ddVars, nmVars>>

InitSave == IdleInit /\ DdIdle /\ NmIdle /\ SvInit

NextSave == SvApply

SpecSave == InitSave /\ [][NextSave]_vars

\* the columns some new record has
NewColumns == UNION {Range(sv_results[n].keys) : n \in 1..Len(sv_results)}

\* C7: a column of the existing spreadsheet that no new record has is still
\* there after save_results, with its value in every row whose doi a new
\* record has; a column both have takes the new records' values.
C7_ColumnsKept ==
    (sv_done /\ sv_excel.exists) =>
        \A col \in ColSet(sv_excel) \ {Doi} :
            IF col \notin NewColumns
            THEN /\ col \in ColSet(sv_out)
                 /\ \A e \in 1..Len(sv_excel.rows) :
                       (\E r \in 1..Len(sv_results) :
                            sv_results[r].val[Doi] = sv_excel.rows[e][Doi])
                       => \E n \in 1..Len(sv_out.rows) :
                            /\ sv_out.rows[n][Doi] = sv_excel.rows[e][Doi]
                            /\ sv_out.rows[n][col] = sv_excel.rows[e][col]
            ELSE /\ col \in ColSet(sv_out)
                 /\ \A r \in 1..Len(sv_results) :
                       col \in Range(sv_results[r].keys)
                       => \E n \in 1..Len(sv_out.rows) :
                            /\ sv_out.rows[n][Doi] = sv_results[r].val[Doi]
                            /\ sv_out.rows[n][col] = sv_results[r].val[col]

=============================================================================
